---- MODULE Spec2Model ----
(***************************************************************************)
(* Model of mlx/backend/common/copy.cpp: the strided N-dimensional         *)
(* copy-and-cast engine (Scalar, Vector, General and GeneralGeneral        *)
(* strategies, the top-level copy and the in-place variants).              *)
(*                                                                         *)
(* Buffers are sequences of integers; element k (0-based, as in the C++)   *)
(* of a buffer b is b[k + 1].  Every kernel is modelled by the ordered     *)
(* list of element assignments "dst_ptr[d] = static_cast<DstT>(src_ptr[s])"*)
(* it performs ("moves", records [s |-> s, d |-> d]); the moves are        *)
(* computed with the running indices and the integer types of the code.    *)
(***************************************************************************)
EXTENDS Integers, Sequences, FiniteSets, TLC

(***************************************************************************)
(* Bounds of the model.                                                    *)
(***************************************************************************)
\* Width in bits of the unsigned index type size_t of the model (the
\* arithmetic of stride_t = size_t is done modulo 2^IdxBits).
IdxBits == 12
\* Ranks up to FreeRank are generated with every dimension size and stride
\* kind; above it a shape grows by transposed dimensions of size 2.
FreeRank == 2
\* Largest starting offset handed to the in-place copy.
MaxOffset == 1

(***************************************************************************)
(* Program constants.                                                      *)
(***************************************************************************)
\* Largest rank with a specialised single-stride kernel (case 7).
MaxKernelRank == 7
\* Number of innermost dimensions walked by the recursive dual-stride kernel.
GGDims == 5
\* Largest rank of a generated shape: one more than the kernels cover.
MaxRank == MaxKernelRank + 1

IdxMod == 2 ^ IdxBits

CopyTypes == {"Scalar", "Vector", "General", "GeneralGeneral"}
StrideTypes == {"size_t", "int64_t"}
Dtypes == {"bool_", "uint8", "int8", "uint16"}
\* Sizes of the generated dimensions: of the innermost one, of the others.
InnerDims == {1, 2, 3}
Dims == {1, 2}
\* How the stride of a generated dimension is chosen (see PushStrides).
Kinds == {"bcast", "row", "col"}

(***************************************************************************)
(* Integer types.                                                          *)
(***************************************************************************)
\* Mutant of ToStride: unsigned arithmetic that saturates at 0 instead of
\* wrapping.
ToStride_saturating(st, x) ==
    IF st = "size_t" THEN (IF x < 0 THEN 0 ELSE x % IdxMod) ELSE x

\* Conversion of an integer to stride_t.
ToStride(st, x) == IF st = "size_t" THEN x % IdxMod ELSE x

\* Conversion of a stride_t value to int64_t.
ToInt64(st, x) ==
    IF st = "size_t"
    THEN ((x + IdxMod \div 2) % IdxMod) - IdxMod \div 2
    ELSE x

\* Address of element idx of a pointer at element p (address space of the
\* width of size_t).
PtrAdd(st, p, idx) == IF st = "size_t" THEN ToInt64(st, (p + idx) % IdxMod) ELSE p + idx

itemsize(t) == IF t = "uint16" THEN 2 ELSE 1

\* static_cast<DstT>(v) of an integer or boolean value v.
Cast(v, t) ==
    CASE t = "bool_"  -> IF v = 0 THEN 0 ELSE 1
      [] t = "uint8"  -> v % 256
      [] t = "int8"   -> ((v + 128) % 256) - 128
      [] t = "uint16" -> v % 65536

\* Buffers hold the stored bytes of each element as an unsigned number.
\* Load is the value of type t stored as bits, Store the bits of value v.
Load(t, bits) == IF t = "int8" /\ bits >= 128 THEN bits - 256 ELSE bits
Store(t, v) == IF t = "int8" THEN v % 256 ELSE v

(***************************************************************************)
(* Helpers on shapes.                                                      *)
(***************************************************************************)
RECURSIVE Prod(_)
Prod(s) == IF s = <<>> THEN 1 ELSE Head(s) * Prod(Tail(s))

\* Row-major strides of a shape.
RECURSIVE RowMajor(_)
RowMajor(shape) ==
    IF shape = <<>> THEN <<>>
    ELSE <<Prod(Tail(shape))>> \o RowMajor(Tail(shape))

\* utils.h elem_to_loc: offset of linear element elem.
RECURSIVE elem_to_loc_from(_, _, _, _, _)
elem_to_loc_from(st, elem, shape, strides, i) ==
    IF i = 0 THEN 0
    ELSE ToStride(st,
           ToStride(st, (elem % shape[i]) * strides[i])
           + elem_to_loc_from(st, elem \div shape[i], shape, strides, i - 1))

elem_to_loc(st, elem, shape, strides) ==
    elem_to_loc_from(st, elem, shape, strides, Len(shape))

\* utils.h collapse_contiguous_dims: scan from the innermost dimension
\* outward; a dimension merges into the group inside it iff its stride is
\* the group's stride times the group's size for every stride vector; a
\* dimension of size 1 is absorbed.  acc = [shape, strides (one per vector)],
\* the head of acc.shape being the outermost group so far.
RECURSIVE collapse_from(_, _, _, _, _)
collapse_from(st, shape, strides, i, acc) ==
    IF i = 0 THEN acc
    ELSE LET nv == Len(strides)
             fresh == [shape |-> <<shape[i]>> \o acc.shape,
                       strides |-> [j \in 1..nv |-> <<strides[j][i]>> \o acc.strides[j]]]
             next ==
               IF acc.shape = <<>> THEN fresh
               ELSE IF shape[i] = 1 THEN acc
               ELSE IF Head(acc.shape) = 1
                 THEN [shape |-> <<shape[i]>> \o Tail(acc.shape),
                       strides |-> [j \in 1..nv |->
                                      <<strides[j][i]>> \o Tail(acc.strides[j])]]
               ELSE IF \A j \in 1..nv :
                          strides[j][i]
                            = ToStride(st, Head(acc.strides[j]) * Head(acc.shape))
                 THEN [shape |-> <<shape[i] * Head(acc.shape)>> \o Tail(acc.shape),
                       strides |-> acc.strides]
               ELSE fresh
         IN collapse_from(st, shape, strides, i - 1, next)

collapse_contiguous_dims(st, shape, strides) ==
    collapse_from(st, shape, strides, Len(shape),
                  [shape |-> <<>>, strides |-> [j \in 1..Len(strides) |-> <<>>]])

(***************************************************************************)
(* Single-stride kernels (destination contiguous).                         *)
(***************************************************************************)
\* Mutant of dim_loop: the carry adjustment of the outer loops is left out.
RECURSIVE dim_loop_no_carry(_, _, _, _, _, _)
dim_loop_no_carry(st, data_shape, i_strides, k, i, idx) ==
    IF i >= data_shape[k] THEN [offs |-> <<>>, idx |-> idx]
    ELSE IF k = Len(data_shape)
      THEN LET rest == dim_loop_no_carry(st, data_shape, i_strides, k, i + 1,
                                         ToStride(st, idx + i_strides[k]))
           IN [offs |-> <<idx>> \o rest.offs, idx |-> rest.idx]
      ELSE LET inner == dim_loop_no_carry(st, data_shape, i_strides, k + 1, 0, idx)
               rest == dim_loop_no_carry(st, data_shape, i_strides, k, i + 1, inner.idx)
           IN [offs |-> inner.offs \o rest.offs, idx |-> rest.idx]

\* The nested loops of copy_general_dim1..7 from axis k inward: iteration i
\* of the loop over axis k with running index src_idx = idx.  offs lists
\* the value of src_idx at every element read, idx is src_idx on exit.
RECURSIVE dim_loop(_, _, _, _, _, _)
dim_loop(st, data_shape, i_strides, k, i, idx) ==
    IF i >= data_shape[k] THEN [offs |-> <<>>, idx |-> idx]
    ELSE IF k = Len(data_shape)
      THEN LET rest == dim_loop(st, data_shape, i_strides, k, i + 1,
                                ToStride(st, idx + i_strides[k]))
           IN [offs |-> <<idx>> \o rest.offs, idx |-> rest.idx]
      ELSE LET inner == dim_loop(st, data_shape, i_strides, k + 1, 0, idx)
               adj == ToStride(st, i_strides[k]
                         - ToStride(st, i_strides[k + 1] * data_shape[k + 1]))
               rest == dim_loop(st, data_shape, i_strides, k, i + 1,
                                ToStride(st, inner.idx + adj))
           IN [offs |-> inner.offs \o rest.offs, idx |-> rest.idx]

\* Ranks 1..4: src_ptr is the data pointer and src_idx starts at i_offset.
copy_general_dim1234(st, data_shape, i_strides, i_offset) ==
    LET offs == dim_loop(st, data_shape, i_strides, 1, 0, ToStride(st, i_offset)).offs
    IN [n \in 1..Len(offs) |->
          [s |-> PtrAdd(st, 0, offs[n]), d |-> ToStride(st, n - 1)]]

\* Mutant of copy_general_dim567: src_ptr is the data pointer, i_offset is
\* dropped.
copy_general_dim567_no_offset(st, data_shape, i_strides, i_offset) ==
    LET offs == dim_loop(st, data_shape, i_strides, 1, 0, 0).offs
    IN [n \in 1..Len(offs) |->
          [s |-> PtrAdd(st, 0, offs[n]), d |-> ToStride(st, n - 1)]]

\* Ranks 5..7: src_ptr is the data pointer plus i_offset and src_idx
\* starts at 0.
copy_general_dim567(st, data_shape, i_strides, i_offset) ==
    LET offs == dim_loop(st, data_shape, i_strides, 1, 0, 0).offs
    IN [n \in 1..Len(offs) |->
          [s |-> PtrAdd(st, i_offset, offs[n]), d |-> ToStride(st, n - 1)]]

\* copy_general: collapse, then the kernel of the collapsed rank, or the
\* elem_to_loc loop over dst.size() elements.
copy_general(st, dst_size, data_shape, i_strides, i_offset) ==
    LET c == collapse_contiguous_dims(st, data_shape, <<i_strides>>)
        new_shape == c.shape
        new_strides == c.strides
        r == Len(new_shape)
    IN IF r \in 1..4
         THEN copy_general_dim1234(st, new_shape, new_strides[1], i_offset)
       ELSE IF r \in 5..MaxKernelRank
         THEN copy_general_dim567(st, new_shape, new_strides[1], i_offset)
       ELSE [i \in 1..dst_size |->
               [s |-> PtrAdd(st, i_offset,
                             elem_to_loc(st, i - 1, new_shape, new_strides[1])),
                d |-> i - 1]]

(***************************************************************************)
(* Dual-stride kernel (both sides strided).                                *)
(***************************************************************************)
\* copy_general_general_dims<D>: iteration i of the loop over axis
\* data_shape.size() - D.  For D > 1 the offsets are int64_t values advanced
\* by the strides; for D = 1 they are the two running pointers.
RECURSIVE copy_general_general_dims_loop(_, _, _, _, _, _, _, _)
copy_general_general_dims_loop(st, D, data_shape, i_strides, o_strides, i_offset, o_offset, i) ==
    LET axis == Len(data_shape) - D + 1
        stride_src == i_strides[axis]
        stride_dst == o_strides[axis]
        N == data_shape[axis]
    IN IF i >= N THEN <<>>
       ELSE IF D > 1
         THEN copy_general_general_dims_loop(st, D - 1, data_shape, i_strides,
                                             o_strides, i_offset, o_offset, 0)
              \o copy_general_general_dims_loop(st, D, data_shape, i_strides,
                     o_strides,
                     ToInt64(st, ToStride(st, i_offset + stride_src)),
                     ToInt64(st, ToStride(st, o_offset + stride_dst)),
                     i + 1)
         ELSE <<[s |-> i_offset, d |-> o_offset]>>
              \o copy_general_general_dims_loop(st, D, data_shape, i_strides,
                     o_strides,
                     PtrAdd(st, i_offset, stride_src),
                     PtrAdd(st, o_offset, stride_dst),
                     i + 1)

copy_general_general_dims(st, D, data_shape, i_strides, o_strides, i_offset, o_offset) ==
    copy_general_general_dims_loop(st, D, data_shape, i_strides, o_strides,
                                   i_offset, o_offset, 0)

\* The loop over the outer chunks of copy_general_general: int i from 0 in
\* steps of size while i < src.size().
RECURSIVE copy_general_general_chunks(_, _, _, _, _, _, _, _, _)
copy_general_general_chunks(st, src_size, new_shape, new_i, new_o, i_offset, o_offset, size, i) ==
    IF i >= src_size THEN <<>>
    ELSE LET src_offset == ToStride(st, i_offset + elem_to_loc(st, i, new_shape, new_i))
             dst_offset == ToStride(st, o_offset + elem_to_loc(st, i, new_shape, new_o))
         IN copy_general_general_dims(st, GGDims, new_shape, new_i, new_o,
                                      ToInt64(st, src_offset), ToInt64(st, dst_offset))
            \o copy_general_general_chunks(st, src_size, new_shape, new_i, new_o,
                                           i_offset, o_offset, size, i + size)

\* copy_general_general: collapse over both stride vectors, then the
\* recursive kernel for rank 1..5, or the chunk loop.  (A collapsed rank of
\* 0 reads new_shape.end() - 5 of an empty vector; the model calls it with
\* rank >= 1 only.)
copy_general_general(st, src_size, data_shape, i_strides, o_strides, i_offset, o_offset) ==
    LET c == collapse_contiguous_dims(st, data_shape, <<i_strides, o_strides>>)
        new_shape == c.shape
        r == Len(new_shape)
        size == Prod(SubSeq(new_shape, r - GGDims + 1, r))
    IN IF r \in 1..GGDims
         THEN copy_general_general_dims(st, r, new_shape, c.strides[1], c.strides[2],
                                        i_offset, o_offset)
         ELSE copy_general_general_chunks(st, src_size, new_shape, c.strides[1],
                                          c.strides[2], i_offset, o_offset, size, 0)

(***************************************************************************)
(* Scalar and Vector kernels.                                              *)
(***************************************************************************)
\* Mutant of copy_single: the loop starts at element 1.
copy_single_from_one(dst_size) ==
    [i \in 1..(dst_size - 1) |-> [s |-> 0, d |-> i]]

\* copy_single: dst_ptr[i] = static_cast<DstT>(src_ptr[0]) for i < dst.size()
copy_single(dst_size) == [i \in 1..dst_size |-> [s |-> 0, d |-> i - 1]]

\* Mutant of copy_vector: the range ends one element early.
copy_vector_short(src_data_size) ==
    [i \in 1..(src_data_size - 1) |-> [s |-> i - 1, d |-> i - 1]]

\* copy_vector: std::copy(src_ptr, src_ptr + src.data_size(), dst_ptr)
copy_vector(src_data_size) == [i \in 1..src_data_size |-> [s |-> i - 1, d |-> i - 1]]

(***************************************************************************)
(* Dispatch.                                                               *)
(***************************************************************************)
\* Mutant of copy_general_array: the destination's strides are passed for
\* the source's.
copy_general_array_dst_strides(src, dst) ==
    copy_general("size_t", dst.size, src.shape, dst.strides, 0)

\* copy_general(src, dst): the single-stride kernel on the source's own
\* shape and strides, stride_t = size_t, offset 0.
copy_general_array(src, dst) ==
    copy_general("size_t", dst.size, src.shape, src.strides, 0)

\* copy_general with o_strides and o_offset (the in-place overload).
copy_general_strided(st, dst_size, data_shape, i_strides, o_strides, i_offset, o_offset) ==
    copy_general(st, dst_size, data_shape, i_strides, i_offset)

\* copy_general_general(src, dst)
copy_general_general_array(src, dst) ==
    copy_general_general("size_t", src.size, src.shape, src.strides, dst.strides, 0, 0)

\* copy<SrcT, DstT>(src, dst, ctype): the switch over the strategy.
copy_typed(src, dst, ctype) ==
    CASE ctype = "Scalar"  -> copy_single(dst.size)
      [] ctype = "Vector"  -> copy_vector(src.data_size)
      [] ctype = "General" -> copy_general_array(src, dst)
      [] ctype = "GeneralGeneral" -> copy_general_general_array(src, dst)

\* copy<SrcT, DstT>(src, dst, ctype, data_shape, i_strides, o_strides,
\* i_offset, o_offset)
copy_typed_strided(src, dst, ctype, st, data_shape, i_strides, o_strides, i_offset, o_offset) ==
    CASE ctype = "Scalar"  -> copy_single(dst.size)
      [] ctype = "Vector"  -> copy_vector(src.data_size)
      [] ctype = "General" ->
           copy_general_strided(st, dst.size, data_shape, i_strides, o_strides,
                                i_offset, o_offset)
      [] ctype = "GeneralGeneral" ->
           copy_general_general(st, src.size, data_shape, i_strides, o_strides,
                                i_offset, o_offset)

\* copy_inplace(src, dst, ctype)
copy_inplace(src, dst, ctype) == copy_typed(src, dst, ctype)

\* copy_inplace<stride_t>(src, dst, data_shape, i_strides, o_strides,
\* i_offset, o_offset, ctype)
copy_inplace_strided(src, dst, st, data_shape, i_strides, o_strides, i_offset, o_offset, ctype) ==
    IF ctype \in {"General", "GeneralGeneral"}
    THEN copy_typed_strided(src, dst, ctype, st, data_shape, i_strides, o_strides,
                            i_offset, o_offset)
    ELSE copy_typed(src, dst, ctype)

\* Mutant of copy_allocate: the source's buffer is never taken over.
copy_allocate_no_donation(src, dst, ctype) ==
    IF ctype = "Vector"
    THEN [shared |-> FALSE, elems |-> src.data_size, allocs |-> 1]
    ELSE [shared |-> FALSE, elems |-> dst.size, allocs |-> 1]

\* The allocation switch of copy(src, dst, ctype): whether dst shares the
\* source's buffer, how many elements it holds, how many allocations.
copy_allocate(src, dst, ctype) ==
    IF ctype = "Vector"
    THEN IF src.donatable /\ itemsize(src.dtype) = itemsize(dst.dtype)
         THEN [shared |-> TRUE, elems |-> src.data_size, allocs |-> 0]
         ELSE [shared |-> FALSE, elems |-> src.data_size, allocs |-> 1]
    ELSE [shared |-> FALSE, elems |-> dst.size, allocs |-> 1]

\* The strategy copy(src, dst, ctype) hands to copy_inplace.
copy_dispatch_ctype(ctype) ==
    IF ctype = "GeneralGeneral" THEN "General" ELSE ctype

(***************************************************************************)
(* Buffers.                                                                *)
(***************************************************************************)
\* Content of a destination element that no copy has written.
Unwritten == 0 - 1
\* What a read outside the source buffer yields.
Poison == 0 - 2

\* Stored bytes of element k of a source buffer of type t.
SrcBits(t, k) ==
    CASE t = "bool_"  -> (k + 1) % 2
      [] t = "uint8"  -> (k + 1) % 256
      [] t = "int8"   -> (255 - k) % 256
      [] t = "uint16" -> ((k + 1) * 100) % 65536

SrcBuffer(t, n) == [k \in 1..n |-> SrcBits(t, k - 1)]
FreshBuffer(n) == [k \in 1..n |-> Unwritten]

\* Mutant of run_move: the element read is moved from, the source is left
\* holding 0 in its place.
run_move_clears_source(m, srcT, dstT, B, shared) ==
    LET inSrc == m.s \in 0..(Len(B.src) - 1)
        v == IF inSrc
             THEN Store(dstT, Cast(Load(srcT, B.src[m.s + 1]), dstT))
             ELSE Poison
        D2 == IF m.d \in 0..(Len(B.dst) - 1)
              THEN [B.dst EXCEPT ![m.d + 1] = v]
              ELSE B.dst
    IN [src |-> IF shared THEN D2
                ELSE IF inSrc THEN [B.src EXCEPT ![m.s + 1] = 0] ELSE B.src,
        dst |-> D2]

\* One element assignment dst_ptr[m.d] = static_cast<DstT>(src_ptr[m.s]) on
\* the buffers B = [src, dst] (one buffer when shared).
run_move(m, srcT, dstT, B, shared) ==
    LET v == IF m.s \in 0..(Len(B.src) - 1)
             THEN Store(dstT, Cast(Load(srcT, B.src[m.s + 1]), dstT))
             ELSE Poison
        D2 == IF m.d \in 0..(Len(B.dst) - 1)
              THEN [B.dst EXCEPT ![m.d + 1] = v]
              ELSE B.dst
    IN [src |-> IF shared THEN D2 ELSE B.src, dst |-> D2]

\* The element assignments moves[lo..hi], in order, on the buffers B (an
\* empty destination takes none).
RECURSIVE run_moves(_, _, _, _, _, _, _)
run_moves(moves, lo, hi, srcT, dstT, B, shared) ==
    IF lo > hi \/ Len(B.dst) = 0 THEN B
    ELSE IF lo = hi THEN run_move(moves[lo], srcT, dstT, B, shared)
    ELSE LET mid == (lo + hi) \div 2
         IN run_moves(moves, mid + 1, hi, srcT, dstT,
                      run_moves(moves, lo, mid, srcT, dstT, B, shared), shared)

\* A sequence given as a function, as a sequence.
AsSeq(f) == SubSeq(f, 1, Len(f))

(***************************************************************************)
(* Generated inputs.                                                       *)
(***************************************************************************)
\* Largest offset reached through strides: sum of (shape[k] - 1) * strides[k].
RECURSIVE Reach(_, _)
Reach(shape, strides) ==
    IF shape = <<>> THEN 0
    ELSE (Head(shape) - 1) * Head(strides) + Reach(Tail(shape), Tail(strides))

\* Column-major strides of a shape.
ColMajor(shape) == [k \in 1..Len(shape) |-> Prod(SubSeq(shape, 1, k - 1))]

\* Strides after a new outermost dimension of size d is added in front:
\* broadcast (stride 0), the next rows of the memory reached so far, or the
\* fastest-varying axis of a transposed layout.
PushStrides(kind, d, shape, strides) ==
    CASE kind = "bcast" -> <<0>> \o strides
      [] kind = "row"   -> <<Reach(shape, strides) + 1>> \o strides
      [] kind = "col"   -> <<1>> \o [k \in 1..Len(strides) |-> strides[k] * d]

\* Logical size of the array behind a broadcast view: the product of the
\* dimensions that are not broadcast.
RECURSIVE BaseSize(_, _)
BaseSize(shape, strides) ==
    IF shape = <<>> THEN 1
    ELSE (IF Head(strides) = 0 THEN 1 ELSE Head(shape))
         * BaseSize(Tail(shape), Tail(strides))

\* (source type, destination type) of the generated calls.
TopPairs == {<<"uint8", "uint8">>, <<"uint16", "uint8">>, <<"int8", "uint16">>,
             <<"uint8", "bool_">>, <<"int8", "uint8">>}
StridedPairs == {<<"uint16", "uint8">>, <<"int8", "uint16">>}
GeneralGeneralPairs == {<<"int8", "uint16">>}

(***************************************************************************)
(* State.                                                                  *)
(***************************************************************************)
VARIABLES
    pc,          \* "build" while the inputs are generated, "done" after a call
    data_shape,  \* the shape of the copy
    i_strides,   \* the source strides
    call,        \* the call made and its arguments
    src_buf,     \* the source's backing buffer
    dst_buf,     \* the destination's backing buffer
    moves,       \* the element assignments executed, in order
    allocs,      \* number of calls of allocator::malloc_or_wait
    shared       \* dst holds the source's buffer (copy_shared_buffer)

vars == <<pc, data_shape, i_strides, call, src_buf, dst_buf, moves, allocs, shared>>

Array(shape, strides, size, data_size, dtype, donatable) ==
    [shape |-> shape, strides |-> strides, size |-> size, data_size |-> data_size,
     dtype |-> dtype, donatable |-> donatable]

NoArray == Array(<<>>, <<>>, 0, 0, "uint8", FALSE)

NoCall == [op |-> "none", ctype |-> "Scalar", st |-> "size_t", i_offset |-> 0,
           o_offset |-> 0, o_strides |-> <<>>, src |-> NoArray, dst |-> NoArray]

Init ==
    /\ pc = "build"
    /\ data_shape = <<>>
    /\ i_strides = <<>>
    /\ call = NoCall
    /\ src_buf = <<>>
    /\ dst_buf = <<>>
    /\ moves = <<>>
    /\ allocs = 0
    /\ shared = FALSE

\* A new outermost dimension of any size and stride kind.
PushDim(d, kind) ==
    /\ pc = "build"
    /\ Len(data_shape) < FreeRank
    /\ Len(data_shape) < MaxRank
    /\ d \in Dims \/ data_shape = <<>>
    /\ d = 1 => kind = "row"
    /\ data_shape' = <<d>> \o data_shape
    /\ i_strides' = PushStrides(kind, d, data_shape, i_strides)
    /\ UNCHANGED <<pc, call, src_buf, dst_buf, moves, allocs, shared>>

\* A new outermost dimension of size 2, transposed to the fastest axis.
PushOuter ==
    /\ pc = "build"
    /\ Len(data_shape) >= FreeRank
    /\ Len(data_shape) < MaxRank
    /\ data_shape' = <<2>> \o data_shape
    /\ i_strides' = PushStrides("col", 2, data_shape, i_strides)
    /\ UNCHANGED <<pc, call, src_buf, dst_buf, moves, allocs, shared>>

\* The buffers after the element assignments mv of a call.
Finish(c, mv, S0, D0, sh, na) ==
    LET ms == AsSeq(mv)
        r == run_moves(ms, 1, Len(ms), c.src.dtype, c.dst.dtype,
                       [src |-> AsSeq(S0), dst |-> AsSeq(D0)], sh)
    IN /\ pc' = "done"
       /\ call' = c
       /\ moves' = ms
       /\ src_buf' = r.src
       /\ dst_buf' = r.dst
       /\ shared' = sh
       /\ allocs' = na
       /\ UNCHANGED <<data_shape, i_strides>>

\* void copy(const array& src, array& dst, CopyType ctype)
Copy(ctype, types, donatable) ==
    /\ pc = "build"
    /\ ctype = "Vector" => Reach(data_shape, i_strides) + 1 = Prod(data_shape)
    /\ donatable => ctype = "Vector"
    /\ LET n == Prod(data_shape)
           src == IF ctype = "Scalar"
                  THEN Array(<<>>, <<>>, 1, 1, types[1], donatable)
                  ELSE Array(data_shape, i_strides, n,
                             Reach(data_shape, i_strides) + 1, types[1], donatable)
           dst == Array(data_shape, RowMajor(data_shape), n, n, types[2], FALSE)
           a == copy_allocate(src, dst, ctype)
           mv == copy_inplace(src, dst, copy_dispatch_ctype(ctype))
           S0 == SrcBuffer(src.dtype, src.data_size)
           D0 == IF a.shared THEN S0 ELSE FreshBuffer(a.elems)
           c == [op |-> "copy", ctype |-> ctype, st |-> "size_t", i_offset |-> 0,
                 o_offset |-> 0, o_strides |-> dst.strides, src |-> src, dst |-> dst]
       IN Finish(c, mv, S0, D0, a.shared, a.allocs)

\* copy_inplace<stride_t>(..., ctype) with ctype Scalar or Vector: the
\* shape, strides and offsets are not used.
CopyInplaceFlat(ctype, st, types) ==
    /\ pc = "build"
    /\ ctype \in {"Scalar", "Vector"}
    /\ ctype = "Vector" => Reach(data_shape, i_strides) + 1 = Prod(data_shape)
    /\ LET n == Prod(data_shape)
           src == IF ctype = "Scalar"
                  THEN Array(<<>>, <<>>, 1, 1, types[1], FALSE)
                  ELSE Array(data_shape, i_strides, n, n, types[1], FALSE)
           dst == Array(data_shape, RowMajor(data_shape), n, n, types[2], FALSE)
           mv == copy_inplace_strided(src, dst, st, data_shape, i_strides,
                                      dst.strides, 0, 0, ctype)
           c == [op |-> "copy_inplace", ctype |-> ctype, st |-> st, i_offset |-> 0,
                 o_offset |-> 0, o_strides |-> dst.strides, src |-> src, dst |-> dst]
       IN Finish(c, mv, SrcBuffer(src.dtype, src.data_size), FreshBuffer(n), FALSE, 0)

\* copy_inplace<stride_t>(..., CopyType::General): dst is a contiguous
\* array of o_offset + product(data_shape) elements.
CopyInplaceGeneral(st, types, i_offset, o_offset) ==
    /\ pc = "build"
    /\ LET n == Prod(data_shape)
           o_strides == RowMajor(data_shape)
           src_len == i_offset + Reach(data_shape, i_strides) + 1
           src == Array(data_shape, i_strides, n, src_len, types[1], FALSE)
           dst == Array(<<o_offset + n>>, <<1>>, o_offset + n, o_offset + n,
                        types[2], FALSE)
           mv == copy_inplace_strided(src, dst, st, data_shape, i_strides,
                                      o_strides, i_offset, o_offset, "General")
           c == [op |-> "copy_inplace", ctype |-> "General", st |-> st,
                 i_offset |-> i_offset, o_offset |-> o_offset,
                 o_strides |-> o_strides, src |-> src, dst |-> dst]
       IN Finish(c, mv, SrcBuffer(src.dtype, src_len), FreshBuffer(dst.size), FALSE, 0)

\* copy_inplace<stride_t>(..., CopyType::GeneralGeneral): the destination
\* is row-major or column-major from o_offset; the source array has the
\* shape of the copy (view) or is the array behind a broadcast (base).
CopyInplaceGeneralGeneral(st, types, i_offset, o_offset, o_layout, src_kind) ==
    /\ pc = "build"
    /\ Len(data_shape) >= 1
    /\ src_kind = "base" => BaseSize(data_shape, i_strides) # Prod(data_shape)
    /\ LET n == Prod(data_shape)
           o_strides == IF o_layout = "row" THEN RowMajor(data_shape)
                        ELSE ColMajor(data_shape)
           src_len == i_offset + Reach(data_shape, i_strides) + 1
           src_size == IF src_kind = "view" THEN n
                       ELSE BaseSize(data_shape, i_strides)
           src == Array(data_shape, i_strides, src_size, src_len, types[1], FALSE)
           dst == Array(<<o_offset + n>>, <<1>>, o_offset + n, o_offset + n,
                        types[2], FALSE)
           mv == copy_inplace_strided(src, dst, st, data_shape, i_strides,
                                      o_strides, i_offset, o_offset, "GeneralGeneral")
           c == [op |-> "copy_inplace", ctype |-> "GeneralGeneral", st |-> st,
                 i_offset |-> i_offset, o_offset |-> o_offset,
                 o_strides |-> o_strides, src |-> src, dst |-> dst]
       IN Finish(c, mv, SrcBuffer(src.dtype, src_len), FreshBuffer(dst.size), FALSE, 0)

Next ==
    \/ \E d \in InnerDims, kind \in Kinds : PushDim(d, kind)
    \/ PushOuter
    \/ \E ctype \in CopyTypes, types \in TopPairs, donatable \in BOOLEAN :
          Copy(ctype, types, donatable)
    \/ \E ctype \in CopyTypes, st \in StrideTypes, types \in StridedPairs :
          CopyInplaceFlat(ctype, st, types)
    \/ \E st \in StrideTypes, types \in StridedPairs,
          i_offset \in 0..MaxOffset, o_offset \in 0..MaxOffset :
          CopyInplaceGeneral(st, types, i_offset, o_offset)
    \/ \E st \in StrideTypes, types \in GeneralGeneralPairs,
          i_offset \in 0..MaxOffset, o_offset \in 0..MaxOffset,
          o_layout \in {"row", "col"}, src_kind \in {"view", "base"} :
          CopyInplaceGeneralGeneral(st, types, i_offset, o_offset, o_layout, src_kind)

Spec == Init /\ [][Next]_vars

(***************************************************************************)
(* Reference semantics used by the properties.                             *)
(***************************************************************************)
\* Offset of row-major linear index n of a shape through strides, in
\* unbounded integers: sum of idx_k(n) * strides[k].
RECURSIVE RefLocFrom(_, _, _, _)
RefLocFrom(n, shape, strides, i) ==
    IF i = 0 THEN 0
    ELSE (n % shape[i]) * strides[i] + RefLocFrom(n \div shape[i], shape, strides, i - 1)

RefLoc(n, shape, strides) == RefLocFrom(n, shape, strides, Len(shape))

\* Stored bytes of static_cast<DstT> of the SrcT element stored as bits.
CastBits(srcT, dstT, bits) == Store(dstT, Cast(Load(srcT, bits), dstT))

\* The source buffer before the call.
SrcBefore == SrcBuffer(call.src.dtype, Len(src_buf))

\* No element assignment of the call read or wrote outside its buffer.
InBounds ==
    \A n \in 1..Len(moves) :
        /\ moves[n].s \in 0..(Len(src_buf) - 1)
        /\ moves[n].d \in 0..(Len(dst_buf) - 1)

\* The call ran the single-stride kernel (General in place, or the
\* top-level copy with General or GeneralGeneral).
RanGeneral ==
    /\ pc = "done"
    /\ \/ call.ctype = "General"
       \/ call.op = "copy" /\ call.ctype = "GeneralGeneral"

CollapsedRank(st, shape, strides) == Len(collapse_contiguous_dims(st, shape, strides).shape)

\* The destination buffer a call of the single-stride kernel leaves, from
\* a fresh contiguous destination of n elements.
GeneralResult(st, n, shape, strides, srcT, dstT, S0) ==
    LET mv == AsSeq(copy_general(st, n, shape, strides, 0))
    IN run_moves(mv, 1, Len(mv), srcT, dstT,
                 [src |-> AsSeq(S0), dst |-> AsSeq(FreshBuffer(n))], FALSE).dst

\* Number of logical elements of the copy.
NumElems == Prod(data_shape)

\* Stored bytes the destination must hold for the source element at offset.
Expected(offset) ==
    CastBits(call.src.dtype, call.dst.dtype, SrcBefore[offset + 1])

\* The call is the in-place copy with explicit shape, strides and offsets.
InplaceStrided(ctype) ==
    pc = "done" /\ call.op = "copy_inplace" /\ call.ctype = ctype

(***************************************************************************)
(* C1: the General (single-stride) path writes to destination index n the  *)
(* cast of the source element at i_offset + sum idx_k(n) * stride_k of the  *)
(* original, uncollapsed shape and strides, for every rank 1..8.           *)
(***************************************************************************)
C1_GeneralMatchesReference ==
    (RanGeneral /\ Len(data_shape) \in 1..MaxRank) =>
        /\ InBounds
        /\ \A n \in 0..(NumElems - 1) :
              dst_buf[n + 1] = Expected(call.i_offset + RefLoc(n, data_shape, i_strides))

\* A rank-8 shape with a broadcast stride that collapses to the rank-7
\* kernel, copied in place from a non-zero source offset.
C1_Witness ==
    /\ InplaceStrided("General")
    /\ Len(data_shape) = MaxRank
    /\ CollapsedRank(call.st, data_shape, <<i_strides>>) = MaxKernelRank
    /\ call.i_offset > 0
    /\ \E k \in 1..Len(data_shape) : i_strides[k] = 0 /\ data_shape[k] > 1

(***************************************************************************)
(* C2: after the in-place GeneralGeneral copy every multi-index idx of     *)
(* data_shape satisfies dst[o_offset + sum idx_k * o_strides_k] =           *)
(* cast(src[i_offset + sum idx_k * i_strides_k]), for collapsed rank 1..5   *)
(* and for collapsed rank above 5.                                         *)
(***************************************************************************)
C2_GeneralGeneralCopiesEveryIndex ==
    InplaceStrided("GeneralGeneral") =>
        \A n \in 0..(NumElems - 1) :
            dst_buf[call.o_offset + RefLoc(n, data_shape, call.o_strides) + 1]
              = Expected(call.i_offset + RefLoc(n, data_shape, i_strides))

(***************************************************************************)
(* C3: the top-level copy with strategy Vector, a donatable source and     *)
(* equal element sizes.  As claimed: dst holds the source's buffer, nothing *)
(* was allocated and no element-wise loop ran.  As amended: dst holds the   *)
(* source's buffer, nothing was allocated, and the flat element-wise cast   *)
(* of data_size(source) elements ran in place on that buffer.              *)
(***************************************************************************)
Donated ==
    /\ pc = "done"
    /\ call.op = "copy"
    /\ call.ctype = "Vector"
    /\ call.src.donatable
    /\ itemsize(call.src.dtype) = itemsize(call.dst.dtype)

C3_DonationNoLoop ==
    Donated => shared /\ allocs = 0 /\ moves = <<>>

C3_DonationCastsInPlace ==
    Donated =>
        /\ shared
        /\ allocs = 0
        /\ dst_buf = src_buf
        /\ Len(moves) = call.src.data_size
        /\ \A n \in 1..Len(moves) :
              /\ moves[n] = [s |-> n - 1, d |-> n - 1]
              /\ dst_buf[n] = Expected(n - 1)

C3_Witness ==
    /\ Donated
    /\ call.src.dtype # call.dst.dtype
    /\ call.src.data_size >= 4

(***************************************************************************)
(* C4: under both strided strategies of the in-place copy the destination  *)
(* offset is honoured: the element of multi-index (0,...,0) is written at   *)
(* destination position o_offset and no position below o_offset is written. *)
(***************************************************************************)
C4_DestinationOffsetHonoured ==
    ((InplaceStrided("General") \/ InplaceStrided("GeneralGeneral"))
        /\ Len(data_shape) >= 1) =>
        /\ dst_buf[call.o_offset + 1] = Expected(call.i_offset)
        /\ \A k \in 0..(call.o_offset - 1) : dst_buf[k + 1] = Unwritten

(***************************************************************************)
(* C5: the top-level copy with strategy GeneralGeneral leaves in its fresh *)
(* destination exactly what the General single-stride kernel leaves in a    *)
(* contiguous destination for the same source shape and strides.           *)
(***************************************************************************)
C5_GeneralGeneralDowngrade ==
    (pc = "done" /\ call.op = "copy" /\ call.ctype = "GeneralGeneral") =>
        /\ allocs = 1
        /\ ~shared
        /\ dst_buf = GeneralResult("size_t", NumElems, data_shape, i_strides,
                                   call.src.dtype, call.dst.dtype, SrcBefore)

C5_Witness ==
    /\ pc = "done" /\ call.op = "copy" /\ call.ctype = "GeneralGeneral"
    /\ Len(data_shape) >= 3
    /\ NumElems >= 8
    /\ i_strides # RowMajor(data_shape)

(***************************************************************************)
(* C6: for a row-major contiguous source the Vector strategy leaves the    *)
(* destination contents the General strategy leaves when given the          *)
(* row-major strides of the shape.                                         *)
(***************************************************************************)
C6_VectorEqualsGeneral ==
    (pc = "done" /\ call.ctype = "Vector" /\ i_strides = RowMajor(data_shape)) =>
        dst_buf = GeneralResult("size_t", NumElems, data_shape, RowMajor(data_shape),
                                call.src.dtype, call.dst.dtype, SrcBefore)

C6_Witness ==
    /\ pc = "done" /\ call.ctype = "Vector" /\ i_strides = RowMajor(data_shape)
    /\ ~shared
    /\ Len(data_shape) >= 2
    /\ NumElems >= 4

(***************************************************************************)
(* C7: with strategy Scalar every one of the destination's size elements   *)
(* is the cast of the source's element 0, for every destination shape,      *)
(* rank 0 included; nothing outside 0..size-1 is written.                  *)
(***************************************************************************)
C7_ScalarBroadcast ==
    (pc = "done" /\ call.ctype = "Scalar") =>
        /\ Len(dst_buf) = NumElems
        /\ \A k \in 1..NumElems : dst_buf[k] = Expected(0)
        /\ \A n \in 1..Len(moves) : moves[n].s = 0 /\ moves[n].d \in 0..(NumElems - 1)

C7_Witness ==
    /\ pc = "done" /\ call.ctype = "Scalar"
    /\ Len(data_shape) >= 2
    /\ NumElems >= 4

(***************************************************************************)
(* C8: a source buffer holding 1..6 viewed with shape [2,3] and strides    *)
(* [1,2], copied with strategy General into a contiguous destination.  As   *)
(* claimed the destination is [1,4,2,5,3,6]; as amended it is               *)
(* [1,3,5,2,4,6].                                                          *)
(***************************************************************************)
Scenario3 ==
    /\ pc = "done" /\ call.op = "copy" /\ call.ctype = "General"
    /\ data_shape = <<2, 3>>
    /\ i_strides = <<1, 2>>
    /\ call.src.dtype = "uint8" /\ call.dst.dtype = "uint8"
    /\ SrcBefore = <<1, 2, 3, 4, 5, 6>>

C8_ScenarioAsClaimed == Scenario3 => dst_buf = <<1, 4, 2, 5, 3, 6>>

C8_ScenarioAsComputed == Scenario3 => dst_buf = <<1, 3, 5, 2, 4, 6>>

C8_Witness == Scenario3 /\ Len(moves) = 6

(***************************************************************************)
(* C9: the source's backing buffer after the top-level copy.  As claimed   *)
(* it equals its contents before the call on every path.  As amended: it    *)
(* does on every path that allocates the destination; on the Vector         *)
(* donation path every element of it holds the cast of its former value.   *)
(***************************************************************************)
C9_SourceUnchanged ==
    (pc = "done" /\ call.op = "copy") => src_buf = SrcBefore

C9_SourceUnchangedUnlessDonated ==
    (pc = "done" /\ call.op = "copy") =>
        /\ ~shared => src_buf = SrcBefore
        /\ shared => \A k \in 1..Len(src_buf) : src_buf[k] = Expected(k - 1)

C9_Witness ==
    /\ pc = "done" /\ call.op = "copy"
    /\ shared
    /\ src_buf # SrcBefore

(***************************************************************************)
(* C10: in the rank-1..7 single-stride kernels with stride_t = size_t the  *)
(* index of every element read equals i_offset + sum idx_k * stride_k       *)
(* modulo 2^w, and is that offset itself, although the carry adjustments    *)
(* stride[k] - stride[k+1] * shape[k+1] wrap.                              *)
(***************************************************************************)
KernelArgs == collapse_contiguous_dims(call.st, data_shape, <<i_strides>>)

RanKernel ==
    /\ RanGeneral
    /\ call.st = "size_t"
    /\ Len(KernelArgs.shape) \in 1..MaxKernelRank

C10_UnsignedIndexMatches ==
    RanKernel =>
        /\ Len(moves) = Prod(KernelArgs.shape)
        /\ \A n \in 1..Len(moves) :
              LET ref == call.i_offset
                           + RefLoc(n - 1, KernelArgs.shape, KernelArgs.strides[1])
              IN /\ moves[n].s % IdxMod = ref % IdxMod
                 /\ moves[n].s = ref

\* The rank-5 (or higher) kernel with a carry adjustment that underflows.
C10_Witness ==
    /\ RanKernel
    /\ call.i_offset > 0
    /\ Len(KernelArgs.shape) >= GGDims
    /\ \E k \in 1..(Len(KernelArgs.shape) - 1) :
          KernelArgs.strides[1][k]
            < KernelArgs.strides[1][k + 1] * KernelArgs.shape[k + 1]

(***************************************************************************)
(* C11: when the in-place strided copy (General or GeneralGeneral) is      *)
(* called with a data_shape whose element count differs from the source's   *)
(* or the destination's size, exactly product(data_shape) elements are      *)
(* copied: as many element assignments as data_shape has multi-indices,     *)
(* to as many distinct destination positions (data_shape of rank 1 or     *)
(* more).                                                                  *)
(***************************************************************************)
SizesDiffer == NumElems # call.src.size \/ NumElems # call.dst.size

Written == {moves[n].d : n \in 1..Len(moves)}

C11_CopiesExactlyDataShape ==
    ((InplaceStrided("General") \/ InplaceStrided("GeneralGeneral"))
        /\ Len(data_shape) >= 1 /\ SizesDiffer) =>
        /\ Len(moves) = NumElems
        /\ Cardinality(Written) = NumElems

====
